---- MODULE Spec2Model ----
(***************************************************************************)
(* A model of finance_tracker.py: the FinanceTracker session (self.data,   *)
(* pyplot's figure registry, the files written) and its operations         *)
(* load_data, _process_data, get_monthly_summary, get_category_summary,    *)
(* get_basic_stats, create_monthly_trend_chart, create_category_charts     *)
(* and export_report_with_charts.                                          *)
(*                                                                         *)
(* A DataFrame is [none, columns, rows]: rows is a sequence of functions   *)
(* from the column names to cells.  A cell is [k, n, s]:                   *)
(*   k = "null"  a missing value (NaN, None, NaT)                          *)
(*   k = "num"   the number n (amounts are whole currency units)           *)
(*   k = "text"  a string: s holds its characters (numeric columns and     *)
(*               MonthYear), its '/'-separated integer fields (date        *)
(*               columns) or the label as one token (Categoria)            *)
(*   k = "ts"    a Timestamp: s = <<year, month, day>>                     *)
(* The table reader (pd.read_csv, pd.read_excel) is an external            *)
(* collaborator: an input file is the extension of its path plus the table *)
(* the reader returns for it, or the fact that the reader raises.          *)
(***************************************************************************)
EXTENDS Integers, Sequences, FiniteSets, TLC

VARIABLES
    data,        \* self.data: None or the DataFrame
    result,      \* what the last call returned or raised
    figures,     \* the number of figures in pyplot's registry
    buffers,     \* the BytesIO objects the running export holds
    outputs,     \* the paths a workbook was saved to
    pc,          \* where the one thread is: idle, or leaving an export
    loadCalled,  \* history: load_data has been called
    source       \* history: the table the reader returned last

vars == <<data, result, figures, buffers, outputs, pc, loadCalled, source>>

(* ------------------------------ bounds --------------------------------- *)

\* Longest table a file of the session specification holds.
MaxSessionRows == 2
\* Longest table a file of the ledger specification holds.
MaxRows == 2
\* Most figures the pyplot registry holds before a chart call is refused.
MaxFigures == 2

(* ------------------------------- cells --------------------------------- *)

Null == [k |-> "null", n |-> 0, s |-> <<>>]

Num(x) == [k |-> "num", n |-> x, s |-> <<>>]

Text(str) == [k |-> "text", n |-> 0, s |-> str]

Timestamp(y, m, d) == [k |-> "ts", n |-> 0, s |-> <<y, m, d>>]

IsNull(c) == c.k = "null"

Digits == <<"0", "1", "2", "3", "4", "5", "6", "7", "8", "9">>

DigitValue(ch) == (CHOOSE i \in 1..10 : Digits[i] = ch) - 1

IsDigit(ch) == \E i \in 1..10 : Digits[i] = ch

RECURSIVE ParseDigits(_)
ParseDigits(str) ==
    IF str = <<>> THEN 0
    ELSE 10 * ParseDigits(SubSeq(str, 1, Len(str) - 1)) + DigitValue(str[Len(str)])

\* The strings pd.to_numeric reads as a whole number: an optional sign and digits.
IsIntegerLiteral(str) ==
    LET body == IF str # <<>> /\ str[1] = "-" THEN Tail(str) ELSE str
    IN  body # <<>> /\ \A i \in 1..Len(body) : IsDigit(body[i])

\* pd.to_numeric(column, errors='coerce'), one value
to_numeric(c) ==
    IF c.k = "num" THEN c
    ELSE IF c.k = "text" /\ IsIntegerLiteral(c.s)
         THEN IF c.s[1] = "-" THEN Num(0 - ParseDigits(Tail(c.s)))
                              ELSE Num(ParseDigits(c.s))
         ELSE Null

\* Series.fillna(0), one value
fillna0(c) == IF IsNull(c) THEN 0 ELSE c.n

(* ------------------------------- dates --------------------------------- *)

\* The years every day of which a pandas Timestamp (int64 nanoseconds) represents.
TimestampYears == 1678..2261

IsLeap(y) == (y % 4 = 0 /\ y % 100 # 0) \/ y % 400 = 0

DaysInMonth(y, m) ==
    IF m = 2 THEN (IF IsLeap(y) THEN 29 ELSE 28)
    ELSE IF m \in {4, 6, 9, 11} THEN 30 ELSE 31

\* The field sequences strptime accepts for '%d/%m/%Y' within Timestamp's range.
MatchesDMY(f) ==
    /\ Len(f) = 3
    /\ f[3] \in TimestampYears
    /\ f[2] \in 1..12
    /\ f[1] \in 1..DaysInMonth(f[3], f[2])

\* pd.to_datetime(column, format='%d/%m/%Y'), one value that parses
to_datetime(c) ==
    IF c.k = "text" THEN Timestamp(c.s[3], c.s[2], c.s[1])
    ELSE IF c.k = "ts" THEN c
    ELSE Null

\* pd.to_datetime raises ValueError when a string of the column does not match.
DatetimeRaises(df, col) ==
    \E i \in 1..Len(df.rows) : df.rows[i][col].k = "text" /\ ~MatchesDMY(df.rows[i][col].s)

\* pd.api.types.is_datetime64_any_dtype(column)
is_datetime64_any_dtype(df, col) ==
    /\ \A i \in 1..Len(df.rows) : df.rows[i][col].k \in {"ts", "null"}
    /\ \E i \in 1..Len(df.rows) : df.rows[i][col].k = "ts"

TwoDigits(x) == <<Digits[((x \div 10) % 10) + 1], Digits[(x % 10) + 1]>>

FourDigits(x) == TwoDigits(x \div 100) \o TwoDigits(x % 100)

\* A faulty variant: the format '%Y-%d', the day where the month belongs.
strftime_Yd(c) ==
    IF c.k = "ts" THEN Text(FourDigits(c.s[1]) \o <<"-">> \o TwoDigits(c.s[3]))
    ELSE Null

\* Series.dt.strftime('%Y-%m'), one value
strftime_Ym(c) ==
    IF c.k = "ts" THEN Text(FourDigits(c.s[1]) \o <<"-">> \o TwoDigits(c.s[2]))
    ELSE Null

\* Series.dt.month and Series.dt.year, one value
dt_month(c) == IF c.k = "ts" THEN Num(c.s[2]) ELSE Null

dt_year(c) == IF c.k = "ts" THEN Num(c.s[1]) ELSE Null

(* ----------------------------- DataFrames ------------------------------ *)

None == [none |-> TRUE, columns |-> {}, rows |-> <<>>]

DataFrame(cols, rows) == [none |-> FALSE, columns |-> cols, rows |-> rows]

\* df[col] = values, a Series with a value for every row
Assign(df, col, values) ==
    DataFrame(df.columns \cup {col},
              [i \in 1..Len(df.rows) |-> (col :> values[i]) @@ df.rows[i]])


\* df.drop(cols, axis=1)
Drop(df, cols) ==
    DataFrame(df.columns \ cols,
              [i \in 1..Len(df.rows) |->
                  [c \in df.columns \ cols |-> df.rows[i][c]]])

(* ------------------------ load_data, _process_data --------------------- *)

\* What a call leaves in self.data, and the exception it raises ("" when it returns).
Outcome(df, exc) == [data |-> df, raised |-> exc]

\* A faulty variant: the sum without fillna(0), which is missing when either value is.
CombineWithoutFillna(row) ==
    IF IsNull(row["Avere"]) \/ IsNull(row["Dare"]) THEN Null
    ELSE Num(row["Avere"].n + row["Dare"].n)

\* self.data['Avere'].fillna(0) + self.data['Dare'].fillna(0), one row
CombineAvereDare(row) == Num(fillna0(row["Avere"]) + fillna0(row["Dare"]))

\* The column assignments of _process_data, in the order of the code.
CoerceDare(df) ==
    Assign(df, "Dare", [i \in 1..Len(df.rows) |-> to_numeric(df.rows[i]["Dare"])])

CoerceAvere(df) ==
    Assign(df, "Avere", [i \in 1..Len(df.rows) |-> to_numeric(df.rows[i]["Avere"])])

AddAmount(df) ==
    Assign(df, "Amount", [i \in 1..Len(df.rows) |-> CombineAvereDare(df.rows[i])])

AddPeriod(df) ==
    LET posted(i) == df.rows[i]["Data contabile"]
        m == Assign(df, "Month", [i \in 1..Len(df.rows) |-> dt_month(posted(i))])
        y == Assign(m, "Year", [i \in 1..Len(df.rows) |-> dt_year(posted(i))])
    IN  Assign(y, "MonthYear", [i \in 1..Len(df.rows) |-> strftime_Ym(posted(i))])

DropUnnecessary(df) ==
    IF "Divisa" \in df.columns /\ "Causale" \in df.columns
    THEN Drop(df, {"Divisa", "Causale"})
    ELSE df

\* _process_data works on self.data in place: a KeyError leaves what was assigned.
_process_data(df) ==
    IF "Dare" \notin df.columns THEN Outcome(df, "KeyError")
    ELSE IF "Avere" \notin df.columns THEN Outcome(CoerceDare(df), "KeyError")
    ELSE Outcome(DropUnnecessary(AddPeriod(AddAmount(CoerceAvere(CoerceDare(df))))), "")

ParseDates(df, col) ==
    Assign(df, col, [i \in 1..Len(df.rows) |-> to_datetime(df.rows[i][col])])

\* The two to_datetime lines of either branch: self.data already holds the table.
ConvertDateColumns(df) ==
    IF DatetimeRaises(df, "Data contabile") THEN Outcome(df, "ValueError")
    ELSE LET posted == ParseDates(df, "Data contabile")
         IN  IF DatetimeRaises(posted, "Valuta") THEN Outcome(posted, "ValueError")
             ELSE _process_data(ParseDates(posted, "Valuta"))

\* pd.read_csv or pd.read_excel is called and returns a table.
ReaderReturns(file) == file.ext \in {".csv", ".xlsx", ".xls"} /\ file.readable

UnsupportedFormat == "ValueError: Unsupported file format. Please use CSV or Excel."

\* load_data(file_path) on a session whose self.data is old.
load_data(old, file) ==
    IF file.ext = ".csv" THEN
        IF ~file.readable THEN Outcome(old, "OSError")
        ELSE ConvertDateColumns(file.table)
    ELSE IF file.ext \in {".xlsx", ".xls"} THEN
        IF ~file.readable THEN Outcome(old, "OSError")
        ELSE IF ~is_datetime64_any_dtype(file.table, "Data contabile")
             THEN ConvertDateColumns(file.table)
             ELSE _process_data(file.table)
    ELSE Outcome(old, UnsupportedFormat)

(* ------------------------------ Aggregator ----------------------------- *)

NoData == "No data loaded. Please load data first."

\* Python's order of the characters and labels the keys are made of.
Collation ==
    <<"-", "0", "1", "2", "3", "4", "5", "6", "7", "8", "9",
      "Arte e Cultura", "Ristoranti e bar", "Utenze">>

Rank(tok) == CHOOSE i \in 1..Len(Collation) : Collation[i] = tok

\* a < b for two keys
KeyLess(a, b) ==
    \/ Len(a) < Len(b) /\ \A j \in 1..Len(a) : a[j] = b[j]
    \/ \E i \in 1..Len(a) :
          /\ i <= Len(b)
          /\ \A j \in 1..(i - 1) : a[j] = b[j]
          /\ Rank(a[i]) < Rank(b[i])

RECURSIVE SumAmount(_, _)
SumAmount(df, S) ==
    IF S = {} THEN 0
    ELSE LET i == CHOOSE j \in S : TRUE
         IN  df.rows[i]["Amount"].n + SumAmount(df, S \ {i})

\* The rows a filter keeps: self.data[self.data['Amount'] < 0] and [... > 0]
AllRows(df) == 1..Len(df.rows)

Expenses(df) == {i \in AllRows(df) : df.rows[i]["Amount"].n < 0}

Income(df) == {i \in AllRows(df) : df.rows[i]["Amount"].n > 0}

\* groupby(col) over the rows S: the keys in ascending order; a row whose key
\* is missing belongs to no group (dropna=True).
GroupKeys(df, S, col) == {df.rows[i][col].s : i \in {j \in S : ~IsNull(df.rows[j][col])}}

SortedKeys(df, S, col) ==
    LET K == GroupKeys(df, S, col)
    IN  [p \in 1..Cardinality(K) |->
            CHOOSE k \in K : Cardinality({j \in K : KeyLess(j, k)}) = p - 1]

GroupOf(df, S, col, key) ==
    {i \in S : ~IsNull(df.rows[i][col]) /\ df.rows[i][col].s = key}

\* 'count' of a column: the values that are not missing
CountOf(df, S, col) == Cardinality({i \in S : ~IsNull(df.rows[i][col])})

\* groupby(col).agg({'Amount': 'sum', 'Data contabile': 'count'}).rename(...)
GroupAgg(df, col) ==
    LET keys == SortedKeys(df, AllRows(df), col)
    IN  [p \in 1..Len(keys) |->
            [key |-> keys[p],
             Amount |-> SumAmount(df, GroupOf(df, AllRows(df), col, keys[p])),
             Transactions |->
                 CountOf(df, GroupOf(df, AllRows(df), col, keys[p]), "Data contabile")]]

\* sort_values('Amount'): ascending, equal amounts in the order they had.
sort_values_Amount(t) ==
    [p \in 1..Len(t) |->
        t[CHOOSE i \in 1..Len(t) :
            Cardinality({j \in 1..Len(t) :
                \/ t[j].Amount < t[i].Amount
                \/ t[j].Amount = t[i].Amount /\ j < i}) = p - 1]]

NoStats ==
    [income |-> 0, expense |-> 0, balance |-> 0,
     avg_expense |-> <<0, 1>>, avg_income |-> <<0, 1>>,
     top_expense_cat |-> "", top_income_cat |-> "", total |-> 0]

\* What an operation hands back: a returned message, table or statistics, or
\* the exception it raises.
Return(op, msg, table, stats) ==
    [op |-> op, kind |-> "return", msg |-> msg, table |-> table, stats |-> stats,
     path |-> ""]

Raise(op, exc) ==
    [op |-> op, kind |-> "raise", msg |-> exc, table |-> <<>>, stats |-> NoStats,
     path |-> ""]

\* A faulty variant: no test for None, so that None.groupby raises.
get_monthly_summary_unguarded(df) ==
    IF df.none THEN Raise("get_monthly_summary", "AttributeError")
    ELSE IF {"MonthYear", "Amount", "Data contabile"} \subseteq df.columns
         THEN Return("get_monthly_summary", "", GroupAgg(df, "MonthYear"), NoStats)
         ELSE Raise("get_monthly_summary", "KeyError")

get_monthly_summary(df) ==
    IF df.none THEN Return("get_monthly_summary", NoData, <<>>, NoStats)
    ELSE IF {"MonthYear", "Amount", "Data contabile"} \subseteq df.columns
         THEN Return("get_monthly_summary", "", GroupAgg(df, "MonthYear"), NoStats)
         ELSE Raise("get_monthly_summary", "KeyError")

get_category_summary(df) ==
    IF df.none THEN Return("get_category_summary", NoData, <<>>, NoStats)
    ELSE IF {"Categoria", "Amount", "Data contabile"} \subseteq df.columns
         THEN Return("get_category_summary", "",
                     sort_values_Amount(GroupAgg(df, "Categoria")), NoStats)
         ELSE Raise("get_category_summary", "KeyError")

Abs(x) == IF x < 0 THEN 0 - x ELSE x

\* groupby('Categoria')['Amount'].sum() over the rows S, as key -> sum
SumByCategory(df, S) ==
    LET keys == SortedKeys(df, S, "Categoria")
    IN  [p \in 1..Len(keys) |->
            [key |-> keys[p], Amount |-> SumAmount(df, GroupOf(df, S, "Categoria", keys[p]))]]

\* Series.idxmax(): the label of the first largest value
idxmax(t) ==
    t[CHOOSE i \in 1..Len(t) :
        /\ \A j \in 1..Len(t) : t[j].Amount <= t[i].Amount
        /\ \A j \in 1..(i - 1) : t[j].Amount < t[i].Amount].key[1]

\* Series.abs()
abs(t) == [p \in 1..Len(t) |-> [t[p] EXCEPT !.Amount = Abs(t[p].Amount)]]

\* mean() of the rows S when there are some, else 0: a fraction <<sum, count>>
MeanOrZero(df, S) == IF Cardinality(S) > 0 THEN <<SumAmount(df, S), Cardinality(S)>> ELSE <<0, 1>>

top_expense_cat(df) ==
    IF Expenses(df) # {} THEN idxmax(abs(SumByCategory(df, Expenses(df)))) ELSE "N/A"

top_income_cat(df) ==
    IF Income(df) # {} THEN idxmax(SumByCategory(df, Income(df))) ELSE "N/A"

\* idxmax of an empty Series raises ValueError: the filter kept rows, none of
\* which has a category.
IdxmaxRaises(df) ==
    \/ Expenses(df) # {} /\ SumByCategory(df, Expenses(df)) = <<>>
    \/ Income(df) # {} /\ SumByCategory(df, Income(df)) = <<>>

get_basic_stats(df) ==
    IF df.none THEN Return("get_basic_stats", NoData, <<>>, NoStats)
    ELSE IF ~({"Amount", "Categoria"} \subseteq df.columns)
         THEN Raise("get_basic_stats", "KeyError")
    ELSE IF IdxmaxRaises(df) THEN Raise("get_basic_stats", "ValueError")
    ELSE Return("get_basic_stats", "", <<>>,
            [income |-> SumAmount(df, Income(df)),
             expense |-> SumAmount(df, Expenses(df)),
             balance |-> SumAmount(df, Income(df)) + SumAmount(df, Expenses(df)),
             avg_expense |-> MeanOrZero(df, Expenses(df)),
             avg_income |-> MeanOrZero(df, Income(df)),
             top_expense_cat |-> top_expense_cat(df),
             top_income_cat |-> top_income_cat(df),
             total |-> Len(df.rows)])

(* ------------------------------- inputs -------------------------------- *)

AllColumns ==
    {"Data contabile", "Valuta", "Dare", "Avere", "Divisa", "Causale",
     "Descrizione", "Categoria", "Tag"}

Category(label) == Text(<<label>>)

\* A row as the reader returns it; the pass-through columns are left empty.
RawRow(posted, valuta, dare, avere, cat) ==
    [c \in AllColumns |->
        CASE c = "Data contabile" -> posted
          [] c = "Valuta" -> valuta
          [] c = "Dare" -> dare
          [] c = "Avere" -> avere
          [] c = "Categoria" -> cat
          [] OTHER -> Null]

RECURSIVE SeqsUpTo(_, _)
SeqsUpTo(S, n) ==
    IF n = 0 THEN {<<>>}
    ELSE LET shorter == SeqsUpTo(S, n - 1)
         IN  shorter \cup {Append(q, x) : q \in {r \in shorter : Len(r) = n - 1}, x \in S}

File(ext, cols, rows) ==
    [ext |-> ext, readable |-> TRUE,
     table |-> DataFrame(cols, [i \in 1..Len(rows) |-> [c \in cols |-> rows[i][c]]])]

Unreadable(ext) == [ext |-> ext, readable |-> FALSE, table |-> None]

\* The columns of an export, of one without currency and reason, of one without debit.
ColumnSets == {AllColumns, AllColumns \ {"Divisa", "Causale"}, AllColumns \ {"Dare"}}

\* Rows of text: a row of the sample of the source, a row whose posting date is
\* in ISO order, a row whose value date is the 31st of a month of 30 days.
SessionTextRows ==
    {RawRow(Text(<<12, 3, 2025>>), Text(<<10, 3, 2025>>), Num(-100), Null,
            Category("Ristoranti e bar")),
     RawRow(Text(<<2025, 3, 12>>), Text(<<10, 3, 2025>>), Num(-30), Null,
            Category("Arte e Cultura")),
     RawRow(Text(<<12, 3, 2025>>), Text(<<31, 4, 2025>>), Null, Num(50),
            Category("Utenze"))}

\* Rows of a spreadsheet whose date cells are typed.
SessionTypedRows ==
    {RawRow(Timestamp(2025, 3, 12), Timestamp(2025, 3, 10), Num(-100), Null,
            Category("Ristoranti e bar")),
     RawRow(Timestamp(2025, 4, 1), Timestamp(2025, 4, 1), Null, Num(50),
            Category("Utenze"))}

\* The files of a session: delimited text of every column set, spreadsheets
\* with text or typed dates, files the reader cannot read, and a file of
\* another extension, which is never read.
SessionFiles ==
    {File(".csv", cols, rows) :
        cols \in ColumnSets, rows \in SeqsUpTo(SessionTextRows, MaxSessionRows)}
    \cup {File(".xlsx", AllColumns, rows) : rows \in SeqsUpTo(SessionTextRows, MaxSessionRows)}
    \cup {File(e, AllColumns, rows) :
        e \in {".xlsx", ".xls"}, rows \in SeqsUpTo(SessionTypedRows, MaxSessionRows)}
    \cup {Unreadable(e) : e \in {".csv", ".xlsx", ".txt"}}

OutputPaths == {"my_financial_report.xlsx", "/missing_dir/report.xlsx"}

\* The paths ExcelWriter can open for writing.
Writable == {"my_financial_report.xlsx"}

(* ------------------------------- session ------------------------------- *)

Idle == [at |-> "idle", output_path |-> ""]

\* FinanceTracker.__init__; nothing has run, pyplot holds no figure.
Init ==
    /\ data = None
    /\ result = [op |-> "__init__", kind |-> "return", msg |-> "", table |-> <<>>,
                 stats |-> NoStats, path |-> ""]
    /\ figures = 0
    /\ buffers = <<>>
    /\ outputs = {}
    /\ pc = Idle
    /\ loadCalled = FALSE
    /\ source = None

LoadData(file) ==
    /\ pc = Idle
    /\ LET o == load_data(data, file)
       IN  /\ data' = o.data
           /\ result' = IF o.raised = "" THEN Return("load_data", "", <<>>, NoStats)
                        ELSE Raise("load_data", o.raised)
    /\ loadCalled' = TRUE
    /\ source' = IF ReaderReturns(file) THEN file.table ELSE source
    /\ UNCHANGED <<figures, buffers, outputs, pc>>

GetMonthlySummary ==
    /\ pc = Idle
    /\ result' = get_monthly_summary(data)
    /\ UNCHANGED <<data, figures, buffers, outputs, pc, loadCalled, source>>

GetCategorySummary ==
    /\ pc = Idle
    /\ result' = get_category_summary(data)
    /\ UNCHANGED <<data, figures, buffers, outputs, pc, loadCalled, source>>

GetBasicStats ==
    /\ pc = Idle
    /\ result' = get_basic_stats(data)
    /\ UNCHANGED <<data, figures, buffers, outputs, pc, loadCalled, source>>

\* plt.subplots(): one more figure in pyplot's registry
subplots(figs) == figs + 1

\* A faulty variant: the figures are left open.
close_none(figs) == figs

\* plt.close('all')
close_all(figs) == 0

\* The figures are returned to the caller, who owns them: none is closed here.
CreateMonthlyTrendChart ==
    /\ pc = Idle
    /\ IF data.none
       THEN /\ result' = Return("create_monthly_trend_chart", "None", <<>>, NoStats)
            /\ figures' = figures
       ELSE IF get_monthly_summary(data).kind = "raise"
       THEN /\ result' = Raise("create_monthly_trend_chart", "KeyError")
            /\ figures' = figures
       ELSE /\ figures < MaxFigures
            /\ result' = Return("create_monthly_trend_chart", "fig",
                                get_monthly_summary(data).table, NoStats)
            /\ figures' = subplots(figures)
    /\ UNCHANGED <<data, buffers, outputs, pc, loadCalled, source>>

\* A faulty variant: the income rows are kept in self.data instead of a copy.
CreateCategoryChartsNoCopy ==
    /\ pc = Idle
    /\ IF data.none
       THEN /\ result' = Return("create_category_charts", "None, None", <<>>, NoStats)
            /\ figures' = figures
            /\ data' = data
       ELSE IF ~({"Amount", "Categoria"} \subseteq data.columns)
       THEN /\ result' = Raise("create_category_charts", "KeyError")
            /\ figures' = figures
            /\ data' = data
       ELSE /\ figures + 1 < MaxFigures
            /\ result' = Return("create_category_charts", "exp_fig, inc_fig", <<>>, NoStats)
            /\ figures' = subplots(subplots(figures))
            /\ data' = DataFrame(data.columns,
                                 SelectSeq(data.rows, LAMBDA r : r["Amount"].n > 0))
    /\ UNCHANGED <<buffers, outputs, pc, loadCalled, source>>

CreateCategoryCharts ==
    /\ pc = Idle
    /\ IF data.none
       THEN /\ result' = Return("create_category_charts", "None, None", <<>>, NoStats)
            /\ figures' = figures
       ELSE IF ~({"Amount", "Categoria"} \subseteq data.columns)
       THEN /\ result' = Raise("create_category_charts", "KeyError")
            /\ figures' = figures
       ELSE /\ figures + 1 < MaxFigures
            /\ result' = Return("create_category_charts", "exp_fig, inc_fig", <<>>, NoStats)
            /\ figures' = subplots(subplots(figures))
    /\ UNCHANGED <<data, buffers, outputs, pc, loadCalled, source>>

BytesIO(name) == [name |-> name, closed |-> FALSE]

\* export_report_with_charts before any load: line 132
ExportNoData(output_path) ==
    /\ pc = Idle
    /\ data.none
    /\ result' = Return("export_report_with_charts", NoData, <<>>, NoStats)
    /\ UNCHANGED <<data, figures, buffers, outputs, pc, loadCalled, source>>

\* export_report_with_charts, the body of the with block: the sheets, the
\* three figures, their three buffers, plt.close('all').  A KeyError of a
\* summary leaves the block, which saves the workbook as far as it got.
ExportBody(output_path) ==
    /\ pc = Idle
    /\ ~data.none
    /\ IF output_path \notin Writable
       THEN /\ result' = Raise("export_report_with_charts", "OSError")
            /\ UNCHANGED <<figures, buffers, outputs, pc>>
       ELSE IF get_monthly_summary(data).kind = "raise"
               \/ get_category_summary(data).kind = "raise"
       THEN /\ result' = Raise("export_report_with_charts", "KeyError")
            /\ outputs' = outputs \cup {output_path}
            /\ UNCHANGED <<figures, buffers, pc>>
       ELSE /\ buffers' = <<BytesIO("imgdata"), BytesIO("exp_imgdata"), BytesIO("inc_imgdata")>>
            /\ figures' = close_all(subplots(subplots(subplots(figures))))
            /\ pc' = [at |-> "export_exit", output_path |-> output_path]
            /\ UNCHANGED <<result, outputs>>
    /\ UNCHANGED <<data, loadCalled, source>>

\* The with block is left (the workbook is saved) and the call returns: its
\* local names, the buffers among them, go out of scope.
ExportExit ==
    /\ pc.at = "export_exit"
    /\ outputs' = outputs \cup {pc.output_path}
    /\ buffers' = <<>>
    /\ result' = [Return("export_report_with_charts",
                         "Report with charts exported to {output_path}", <<>>, NoStats)
                     EXCEPT !.path = pc.output_path]
    /\ pc' = Idle
    /\ UNCHANGED <<data, figures, loadCalled, source>>

Next ==
    \/ \E file \in SessionFiles : LoadData(file)
    \/ GetMonthlySummary
    \/ GetCategorySummary
    \/ GetBasicStats
    \/ CreateMonthlyTrendChart
    \/ CreateCategoryCharts
    \/ \E p \in OutputPaths : ExportNoData(p)
    \/ \E p \in OutputPaths : ExportBody(p)
    \/ ExportExit

Spec == Init /\ [][Next]_vars

(* ------------------------------- ledgers ------------------------------- *)

\* Debit and credit values: missing, a number, a string that spells a number,
\* a string with a decimal comma, a string that spells none.
DareCells == {Null, Num(-2), Text(<<"-", "1">>), Text(<<"1", ",", "5">>)}

AvereCells == {Null, Num(3), Text(<<"x">>)}

\* Rows that differ in their debit and credit cells.
AmountRows ==
    {RawRow(Text(<<12, 3, 2025>>), Text(<<10, 3, 2025>>), dare, avere, Category("Utenze")) :
        dare \in DareCells, avere \in AvereCells}

\* Rows that differ in posting date and category, either of which may be
\* missing, each as an expense and as an income.
GroupRows ==
    {RawRow(dc[1], Text(<<10, 3, 2025>>), da[1], da[2], dc[2]) :
        dc \in {<<Text(<<12, 3, 2025>>), Category("Arte e Cultura")>>,
                 <<Text(<<12, 3, 2025>>), Null>>,
                 <<Null, Category("Arte e Cultura")>>,
                 <<Text(<<12, 11, 2025>>), Category("Ristoranti e bar")>>},
        da \in {<<Num(-2), Null>>, <<Null, Num(3)>>}}

\* Rows of another day of the same month, and of the same month of another year.
DateRows ==
    {RawRow(Text(posted), Text(<<10, 3, 2025>>), Num(-2), Null, Category("Utenze")) :
        posted \in {<<1, 3, 2025>>, <<12, 3, 2024>>}}

LedgerRows == AmountRows \cup GroupRows \cup DateRows

\* read_csv(decimal=',') returns the numbers of a column as numbers: a table
\* with a string among its debit and credit values is a spreadsheet's, where
\* every cell has its own type.
HasTextAmount(rows) ==
    \E c \in {"Dare", "Avere"} : \E i \in 1..Len(rows) : rows[i][c].k = "text"

LedgerFiles ==
    {File(IF HasTextAmount(rows) THEN ".xlsx" ELSE ".csv", AllColumns, rows) :
        rows \in SeqsUpTo(LedgerRows, MaxRows)}

\* The first load of a session.
FirstLoad == ~loadCalled /\ \E file \in LedgerFiles : LoadData(file)

\* A session that loads one ledger and reads its summaries.
NextLedger ==
    \/ FirstLoad
    \/ GetMonthlySummary
    \/ GetCategorySummary
    \/ GetBasicStats

SpecLedger == Init /\ [][NextLedger]_vars

(* -------------------------------- claims ------------------------------- *)

\* self.data holds a ledger: _process_data ran to its last assignment.
Normalized(df) == ~df.none /\ "MonthYear" \in df.columns

\* The last call was a load_data that returned.
LoadReturned == result.op = "load_data" /\ result.kind = "return"

SummaryOps ==
    {"get_monthly_summary", "get_category_summary", "get_basic_stats",
     "export_report_with_charts"}

\* C1: in a session in which load_data has not been called, get_monthly_summary,
\* get_category_summary, get_basic_stats and export_report_with_charts return
\* the no-data message, none raises, and no workbook has been written.
C1_NoDataBeforeLoad ==
    (~loadCalled /\ result.op \in SummaryOps) =>
        /\ result.kind = "return"
        /\ result.msg = NoData
        /\ outputs = {}
        /\ pc = Idle

C1_Witness ==
    /\ ~loadCalled
    /\ result.op = "get_monthly_summary"
    /\ result.kind = "return"
    /\ result.msg = NoData

\* The number a debit or credit value of the source stands for: itself, the
\* number a string spells, and 0 when it is missing or spells none.
ValueOrZero(c) ==
    IF c.k = "num" THEN c.n
    ELSE IF c.k = "text" /\ c.s = <<"-", "1">> THEN -1
    ELSE 0

\* C2: after a load_data that returned, every record's Amount is a number, the
\* credit value or 0 plus the debit value or 0 of the row it was read from.
C2_AmountIsCreditPlusDebit ==
    LoadReturned =>
        /\ Len(data.rows) = Len(source.rows)
        /\ \A i \in 1..Len(data.rows) :
              /\ data.rows[i]["Amount"].k = "num"
              /\ data.rows[i]["Amount"].n =
                     ValueOrZero(source.rows[i]["Avere"]) + ValueOrZero(source.rows[i]["Dare"])

\* A ledger with a row both of whose values are missing and a row whose debit
\* is a string that spells no number.
C2_Witness ==
    /\ LoadReturned
    /\ \E i \in 1..Len(source.rows) :
          /\ IsNull(source.rows[i]["Avere"]) /\ IsNull(source.rows[i]["Dare"])
          /\ data.rows[i]["Amount"] = Num(0)
    /\ \E i \in 1..Len(source.rows) :
          /\ source.rows[i]["Dare"].k = "text" /\ source.rows[i]["Dare"].s = <<"1", ",", "5">>
          /\ source.rows[i]["Avere"] = Num(3)
          /\ data.rows[i]["Amount"] = Num(3)

RECURSIVE SumTransactions(_)
SumTransactions(t) == IF t = <<>> THEN 0 ELSE Head(t).Transactions + SumTransactions(Tail(t))

RECURSIVE SumAmounts(_)
SumAmounts(t) == IF t = <<>> THEN 0 ELSE Head(t).Amount + SumAmounts(Tail(t))

\* C3: for a loaded ledger, the transaction counts of get_monthly_summary add
\* up to the number of records and its amounts to the sum of all Amounts.
C3_MonthlySummaryCoversLedger ==
    (Normalized(data) /\ result.op = "get_monthly_summary") =>
        /\ result.kind = "return"
        /\ SumTransactions(result.table) = Len(data.rows)
        /\ SumAmounts(result.table) = SumAmount(data, AllRows(data))

\* C4: a load_data that raises leaves self.data as it was before the call.
C4_FailedLoadKeepsSession ==
    [][(result'.op = "load_data" /\ result'.kind = "raise") => data' = data]_vars

\* C5: for a loaded ledger, get_basic_stats reports the sum of the positive
\* Amounts, the sum of the negative ones, the sum of all and the number of
\* records.
C5_BasicStatsTotals ==
    (Normalized(data) /\ result.op = "get_basic_stats") =>
        /\ result.kind = "return"
        /\ result.stats.income =
               SumAmount(data, {i \in AllRows(data) : data.rows[i]["Amount"].n > 0})
        /\ result.stats.expense =
               SumAmount(data, {i \in AllRows(data) : data.rows[i]["Amount"].n < 0})
        /\ result.stats.balance = SumAmount(data, AllRows(data))
        /\ result.stats.balance = result.stats.income + result.stats.expense
        /\ result.stats.total = Len(data.rows)

\* The labels of a ledger, and the rows among S that carry a label.
Labels(df) ==
    {df.rows[i]["Categoria"].s[1] : i \in {j \in AllRows(df) : ~IsNull(df.rows[j]["Categoria"])}}

Labelled(df, S, label) ==
    {i \in S : ~IsNull(df.rows[i]["Categoria"]) /\ df.rows[i]["Categoria"].s[1] = label}

Negative(df) == {i \in AllRows(df) : df.rows[i]["Amount"].n < 0}

Positive(df) == {i \in AllRows(df) : df.rows[i]["Amount"].n > 0}

\* C6: for a loaded ledger, get_basic_stats returns, and names as top expense
\* category one whose negative Amounts have the largest absolute sum, as top
\* income category one whose positive Amounts have the largest sum, and "N/A"
\* for a side without records.
C6_TopCategories ==
    (Normalized(data) /\ result.op = "get_basic_stats") =>
        /\ result.kind = "return"
        /\ IF Negative(data) = {} THEN result.stats.top_expense_cat = "N/A"
           ELSE /\ result.stats.top_expense_cat \in Labels(data)
                /\ \A l \in Labels(data) :
                      Abs(SumAmount(data, Labelled(data, Negative(data), l))) <=
                      Abs(SumAmount(data, Labelled(data, Negative(data),
                                                   result.stats.top_expense_cat)))
        /\ IF Positive(data) = {} THEN result.stats.top_income_cat = "N/A"
           ELSE /\ result.stats.top_income_cat \in Labels(data)
                /\ \A l \in Labels(data) :
                      SumAmount(data, Labelled(data, Positive(data), l)) <=
                      SumAmount(data, Labelled(data, Positive(data),
                                               result.stats.top_income_cat))

\* C7: for a loaded ledger, get_category_summary has one entry for each
\* category of the ledger, with the sum of the Amounts and the number of the
\* records of the category, in ascending order of the sums.
C7_CategorySummary ==
    (Normalized(data) /\ result.op = "get_category_summary") =>
        /\ result.kind = "return"
        /\ Len(result.table) = Cardinality(Labels(data))
        /\ {result.table[p].key[1] : p \in 1..Len(result.table)} = Labels(data)
        /\ \A p \in 1..Len(result.table) :
              LET rows == Labelled(data, AllRows(data), result.table[p].key[1])
              IN  /\ result.table[p].Amount = SumAmount(data, rows)
                  /\ result.table[p].Transactions = Cardinality(rows)
        /\ \A p \in 1..(Len(result.table) - 1) :
              result.table[p].Amount <= result.table[p + 1].Amount

ReadOps ==
    {"get_monthly_summary", "get_category_summary", "get_basic_stats",
     "create_monthly_trend_chart", "create_category_charts",
     "export_report_with_charts"}

\* C9: on a session that holds a ledger, a step of a summary, a chart or an
\* export call leaves self.data as it is: its rows, their order and values.
C9_ReadsLeaveLedger ==
    [][(Normalized(data) /\ (result'.op \in ReadOps \/ pc'.at = "export_exit" \/ pc.at = "export_exit"))
          => (data' = data /\ Normalized(data'))]_vars

\* An export returned on a session that holds a ledger with records.
C9_Witness ==
    /\ Normalized(data)
    /\ Len(data.rows) > 0
    /\ result.op = "export_report_with_charts"
    /\ result.kind = "return"
    /\ result.path \in outputs

\* C10 as stated: when export_report_with_charts is about to return, every
\* figure is closed and every buffer it created has been closed.
C10_AllReleasedBeforeReturn ==
    pc.at = "export_exit" =>
        /\ figures = 0
        /\ \A i \in 1..Len(buffers) : buffers[i].closed

\* C10 as amended: when export_report_with_charts is about to return, every
\* figure is closed; its buffers are not closed, and no longer exist once it
\* has returned, so that after an export no figure and no buffer is left.
C10_NoneLiveAfterExport ==
    /\ pc.at = "export_exit" => figures = 0
    /\ pc = Idle => buffers = <<>>
    /\ (pc = Idle /\ result.op = "export_report_with_charts" /\ result.kind = "return") =>
           figures = 0

\* An export that wrote its workbook has returned.
C10_Witness ==
    /\ pc = Idle
    /\ result.op = "export_report_with_charts"
    /\ result.kind = "return"
    /\ result.path \in outputs
    /\ figures = 0
    /\ buffers = <<>>

====
